---- MODULE Spec2Model ----
(***************************************************************************)
(* Model of the rolling log writer of writer.rolling.go: a live file that  *)
(* is appended to under a mutex, rotated to "<fileName>.<RFC 3339 time>"   *)
(* when bytesWritten reaches maxSize, and pruned by deleteOld.             *)
(*                                                                         *)
(* Paths are sequences of tokens (a token is a run of characters that the  *)
(* code never splits: the live file's own path, ".", "/", a name part or a *)
(* complete RFC 3339 timestamp).  The file system is a function from the   *)
(* paths that exist in the log directory to their size and kind.           *)
(***************************************************************************)
EXTENDS Integers, Sequences, FiniteSets, TLC

(* ------------------------------ bounds -------------------------------- *)
NumProcs == 2       \* concurrent callers of one writer instance
MaxTime == 2        \* the clock runs over seconds 1..MaxTime
MaxCountArg == 1    \* newRollingWriter's maxCount argument ranges over 0..MaxCountArg
MaxFaults == 1      \* calls the file system fails while the writer is in use

(* --------------------------- program constants ------------------------ *)
megabyte == 1048576

\* Granularity of the sizes explored: half a megabyte.
Unit == megabyte \div 2

Procs == 1..NumProcs

\* newRollingWriter's maxSize argument, in megabytes
SizeArgs == {0, 1}

\* the byte lengths of the formatted lines written (with their newline)
LineLens == {Unit, 2 * Unit}

\* the sizes of the live file found at start-up
LiveSizes == {0, Unit, 2 * Unit}

(* ------------------------------ paths --------------------------------- *)
\* toAbsolutePath(fileName): the live file's path, one token.
fileName == <<"app">>

TimeRange == 0..9

\* the RFC 3339 text of every second of the range
Stamp == [t \in TimeRange |-> "2020-01-01T00:00:0" \o ToString(t) \o "Z"]

\* time.Now().Format(time.RFC3339) at clock second t (second resolution).
Format(t) == Stamp[t]

\* time.Parse(time.RFC3339, s) succeeds
ParseOk(s) == \E t \in TimeRange : Stamp[t] = s

\* the instant time.Parse returns
ParseTime(s) == CHOOSE t \in TimeRange : Stamp[t] = s

\* strings.HasPrefix(path, prefix)
HasPrefix(path, prefix) ==
    /\ Len(path) >= Len(prefix)
    /\ SubSeq(path, 1, Len(prefix)) = prefix

\* split := strings.Split(path, "."); split[len(split)-1]
RECURSIVE LastSegment(_)
LastSegment(path) ==
    IF path = <<>> THEN <<>>
    ELSE IF path[Len(path)] = "." THEN <<>>
    ELSE LastSegment(SubSeq(path, 1, Len(path) - 1)) \o <<path[Len(path)]>>

\* the walk callback without the time.Parse test of lines 104-108
IsLogFileAnySuffix(path) == HasPrefix(path, fileName)

\* the walk callback's test: prefix match and a suffix that parses
IsLogFile(path) ==
    /\ HasPrefix(path, fileName)
    /\ Len(LastSegment(path)) = 1
    /\ ParseOk(LastSegment(path)[1])

\* r.fileName + "." + timestamp
ArchivePath(ts) == fileName \o <<".", ts>>

\* Order of the tokens as filepath.Walk meets them: Walk descends into a
\* directory before it visits the directory's later siblings, so "/"
\* ranks lowest; then '.', the digits (a timestamp), the letters.
TokRank(tok) ==
    IF ParseOk(tok) THEN 2 + ParseTime(tok)
    ELSE CASE tok = "/" -> 0
           [] tok = "." -> 1
           [] tok = "app" -> 20
           [] tok = "bak" -> 21
           [] tok = "d" -> 22
           [] tok = "f" -> 23
           [] tok = "other" -> 24
           [] tok = "x" -> 25
           [] OTHER -> 30

Min(a, b) == IF a < b THEN a ELSE b

\* lexical order of two paths, as filepath.Walk visits them
PathLess(a, b) ==
    \/ Len(a) < Len(b) /\ SubSeq(b, 1, Len(a)) = a
    \/ \E k \in 1..Min(Len(a), Len(b)) :
          /\ SubSeq(a, 1, k - 1) = SubSeq(b, 1, k - 1)
          /\ TokRank(a[k]) < TokRank(b[k])

RECURSIVE SortPaths(_)
SortPaths(S) ==
    IF S = {} THEN <<>>
    ELSE LET m == CHOOSE x \in S : \A y \in S \ {x} : PathLess(x, y)
         IN <<m>> \o SortPaths(S \ {m})

(* --------------------------- file system ------------------------------ *)
File(n) == [size |-> n, isDir |-> FALSE]
Dir == [size |-> 0, isDir |-> TRUE]

Exists(f, p) == p \in DOMAIN f

\* entries below directory p
Children(f, p) == {q \in DOMAIN f : HasPrefix(q, p \o <<"/">>)}

\* os.Remove(p) is refused by the file system
RemoveRefused(f, p) ==
    \/ ~Exists(f, p)
    \/ f[p].isDir /\ Children(f, p) # {}

\* os.Remove(p)
Remove(f, p) == [q \in DOMAIN f \ {p} |-> f[q]]

\* os.Rename(old, new) is refused by the file system
RenameRefused(f, old, new) ==
    \/ ~Exists(f, old)
    \/ Exists(f, new) /\ f[new].isDir

\* os.Rename(old, new): an existing file at new is replaced
Rename(f, old, new) ==
    [q \in (DOMAIN f \ {old}) \cup {new} |-> IF q = new THEN f[old] ELSE f[q]]

\* openFile(name): open for appending, creating the file when absent
Create(f, p) ==
    IF Exists(f, p) THEN f
    ELSE [q \in DOMAIN f \cup {p} |-> IF q = p THEN File(0) ELSE f[q]]

\* file.WriteString appends n bytes to the file at p
AppendBytes(f, p, n) == [f EXCEPT ![p].size = @ + n]

RECURSIVE SumSizes(_, _)
SumSizes(f, S) ==
    IF S = {} THEN 0
    ELSE LET p == CHOOSE x \in S : TRUE
         IN f[p].size + SumSizes(f, S \ {p})

\* bytes held by all the files of the log directory
DiskBytes(f) == SumSizes(f, DOMAIN f)

(* ----------------------- rotate and deleteOld ------------------------- *)
\* The faults the file system can answer a call with.
RotateFaults == {"none", "close", "rename", "open"}

\* rotate() without the reset of bytesWritten (line 83 left out)
RotateKeepsCount(h, bw, f, t, fault) ==
    LET target == ArchivePath(Format(t))
        res(h2, bw2, f2, e) == [file |-> h2, bytesWritten |-> bw2, fs |-> f2, err |-> e]
    IN
    IF h # "open" THEN res(h, bw, f, "close")
    ELSE IF fault = "close" THEN res("closed", bw, f, "close")
    ELSE IF fault = "rename" \/ RenameRefused(f, fileName, target)
      THEN res("closed", bw, f, "rename")
    ELSE IF fault = "open"
      THEN res("nil", bw, Rename(f, fileName, target), "open")
    ELSE res("open", bw, Create(Rename(f, fileName, target), fileName), "none")

\* rotate() with the reset of bytesWritten moved before the rename
RotateResetsBeforeRename(h, bw, f, t, fault) ==
    LET target == ArchivePath(Format(t))
        res(h2, bw2, f2, e) == [file |-> h2, bytesWritten |-> bw2, fs |-> f2, err |-> e]
    IN
    IF h # "open" THEN res(h, bw, f, "close")
    ELSE IF fault = "close" THEN res("closed", bw, f, "close")
    ELSE IF fault = "rename" \/ RenameRefused(f, fileName, target)
      THEN res("closed", 0, f, "rename")
    ELSE IF fault = "open"
      THEN res("nil", 0, Rename(f, fileName, target), "open")
    ELSE res("open", 0, Create(Rename(f, fileName, target), fileName), "none")

\* rotate(): h is the handle ("nil", "open", "closed"), bw is bytesWritten,
\* t the clock, fault the step the file system fails.  A failed Close
\* still releases the descriptor; a failed openFile leaves a nil handle.
Rotate(h, bw, f, t, fault) ==
    LET target == ArchivePath(Format(t))
        res(h2, bw2, f2, e) == [file |-> h2, bytesWritten |-> bw2, fs |-> f2, err |-> e]
    IN
    IF h # "open" THEN res(h, bw, f, "close")
    ELSE IF fault = "close" THEN res("closed", bw, f, "close")
    ELSE IF fault = "rename" \/ RenameRefused(f, fileName, target)
      THEN res("closed", bw, f, "rename")
    ELSE IF fault = "open"
      THEN res("nil", 0, Rename(f, fileName, target), "open")
    ELSE res("open", 0, Create(Rename(f, fileName, target), fileName), "none")

\* the filepath.Walk pass of deleteOld: the matching paths, in walk order
LogFiles(f) == SelectSeq(SortPaths(DOMAIN f), IsLogFile)

\* the loop with an off-by-one bound: for len(logFiles) > r.maxCount+1
RECURSIVE DeleteLoopLeavesOne(_, _, _, _, _)
DeleteLoopLeavesOne(f, logFiles, mc, failAt, removed) ==
    IF Len(logFiles) <= mc + 1 THEN [fs |-> f, err |-> "none", removed |-> removed]
    ELSE IF failAt = Len(removed) + 1 \/ RemoveRefused(f, Head(logFiles))
      THEN [fs |-> f, err |-> "remove", removed |-> removed]
    ELSE DeleteLoopLeavesOne(Remove(f, Head(logFiles)), Tail(logFiles), mc, failAt,
                             Append(removed, Head(logFiles)))

\* the instant the suffix of a listed path parses to
StampOf(path) == ParseTime(path[Len(path)])

\* position of the listed path with the earliest parsed instant
OldestIndex(logFiles) ==
    CHOOSE i \in 1..Len(logFiles) : \A j \in 1..Len(logFiles) :
        \/ StampOf(logFiles[i]) < StampOf(logFiles[j])
        \/ StampOf(logFiles[i]) = StampOf(logFiles[j]) /\ i <= j

\* the loop deleting by parsed timestamp, oldest first, in place of the
\* front of the list
RECURSIVE DeleteLoopOldestFirst(_, _, _, _, _)
DeleteLoopOldestFirst(f, logFiles, mc, failAt, removed) ==
    IF Len(logFiles) <= mc THEN [fs |-> f, err |-> "none", removed |-> removed]
    ELSE LET k == OldestIndex(logFiles) IN
         IF failAt = Len(removed) + 1 \/ RemoveRefused(f, logFiles[k])
           THEN [fs |-> f, err |-> "remove", removed |-> removed]
         ELSE DeleteLoopOldestFirst(Remove(f, logFiles[k]),
                  SubSeq(logFiles, 1, k - 1) \o SubSeq(logFiles, k + 1, Len(logFiles)),
                  mc, failAt, Append(removed, logFiles[k]))

\* the loop taking maxCount = 0 to mean that every archive is kept
RECURSIVE DeleteLoopZeroKeepsAll(_, _, _, _, _)
DeleteLoopZeroKeepsAll(f, logFiles, mc, failAt, removed) ==
    IF mc = 0 \/ Len(logFiles) <= mc THEN [fs |-> f, err |-> "none", removed |-> removed]
    ELSE IF failAt = Len(removed) + 1 \/ RemoveRefused(f, Head(logFiles))
      THEN [fs |-> f, err |-> "remove", removed |-> removed]
    ELSE DeleteLoopZeroKeepsAll(Remove(f, Head(logFiles)), Tail(logFiles), mc, failAt,
                                Append(removed, Head(logFiles)))

\* the loop going on to the next file when an os.Remove fails
RECURSIVE DeleteLoopSkipsFailure(_, _, _, _, _)
DeleteLoopSkipsFailure(f, logFiles, mc, failAt, removed) ==
    IF Len(logFiles) <= mc THEN [fs |-> f, err |-> "none", removed |-> removed]
    ELSE IF failAt = Len(removed) + 1 \/ RemoveRefused(f, Head(logFiles))
      THEN DeleteLoopSkipsFailure(f, Tail(logFiles), mc, 0, removed)
    ELSE DeleteLoopSkipsFailure(Remove(f, Head(logFiles)), Tail(logFiles), mc, failAt,
                                Append(removed, Head(logFiles)))

\* the deletion loop of deleteOld; removed lists the paths deleted so far
\* and failAt is the os.Remove call the file system fails (0: none)
RECURSIVE DeleteLoop(_, _, _, _, _)
DeleteLoop(f, logFiles, mc, failAt, removed) ==
    IF Len(logFiles) <= mc THEN [fs |-> f, err |-> "none", removed |-> removed]
    ELSE IF failAt = Len(removed) + 1 \/ RemoveRefused(f, Head(logFiles))
      THEN [fs |-> f, err |-> "remove", removed |-> removed]
    ELSE DeleteLoop(Remove(f, Head(logFiles)), Tail(logFiles), mc, failAt,
                    Append(removed, Head(logFiles)))

\* deleteOld()
DeleteOld(f, mc, failAt) == DeleteLoop(f, LogFiles(f), mc, failAt, <<>>)

(* ------------------------------- state -------------------------------- *)
VARIABLES
    fs,            \* the log directory: path -> [size, isDir]
    ctor,          \* newRollingWriter: "none", "returned" or "panicked"
    closed,        \* r.closed
    file,          \* r.file: "nil", "open" (on fileName) or "closed"
    maxSize,       \* r.maxSize, in bytes
    maxCount,      \* r.maxCount
    bytesWritten,  \* r.bytesWritten
    lock,          \* r.lock: 0 when free, else the caller holding it
    pc,            \* each caller's position
    now,           \* the second time.Now() last returned
    call,          \* what each caller's current call has done so far
    start,         \* what newRollingWriter found and did
    faults,        \* calls the file system has failed since construction
    ledger         \* bytes the directory held at construction + appended - deleted

vars == <<fs, ctor, closed, file, maxSize, maxCount, bytesWritten, lock, pc,
          now, call, start, faults, ledger>>

\* Entries that lie beside the live file before the writer is built: a
\* copy app.bak in every directory, and any of an archive of an earlier
\* run, app.<t0>, and another program's file appx.<t0>.
BakPath == fileName \o <<".", "bak">>

OtherPath == fileName \o <<"x", ".", Format(0)>>

PreDirs == { {BakPath} \cup S : S \in SUBSET {ArchivePath(Format(0)), OtherPath} }

\* Further entries a log directory can hold, all of which begin with the
\* live file's path: a stamped copy app.bak.<t0>, a directory appd with a
\* file appd/f.<t0> in it, and an empty directory named app.<t9>.
BakStamped == BakPath \o <<".", Format(0)>>

SubDir == fileName \o <<"d">>

SubFile == SubDir \o <<"/", "f", ".", Format(0)>>

DirArchive == ArchivePath(Format(9))

\* the kind and size of a pre-existing entry
Entry(p) == IF p \in {SubDir, DirArchive} THEN Dir ELSE File(Unit)

\* the directories the retention scanner is exercised on
RichDirs ==
    { {BakPath} \cup S \cup (IF SubFile \in S THEN {SubDir} ELSE {}) :
        S \in SUBSET {ArchivePath(Format(0)), OtherPath, BakStamped, SubFile, DirArchive} }

NoCall == [op |-> "none", wasClosed |-> FALSE, werr |-> "none", count |-> 0,
           bw |-> -1, rotations |-> 0, rotErr |-> "none", nRot0 |-> 0,
           scans |-> 0, delErr |-> "none", nDel0 |-> 0, removed |-> <<>>,
           fault |-> FALSE]

NoStart == [live |-> -1, n0 |-> 0, failed |-> "none", rotations |-> 0,
            scans |-> 0, removed |-> <<>>, fresh |-> FALSE]

Init ==
    /\ \E pre \in PreDirs, live \in LiveSizes \cup {-1} :
          fs = [p \in pre \cup (IF live >= 0 THEN {fileName} ELSE {}) |->
                  IF p = fileName THEN File(live) ELSE File(Unit)]
    /\ ctor = "none"
    /\ closed = FALSE
    /\ file = "nil"
    /\ maxSize = 0
    /\ maxCount = 0
    /\ bytesWritten = 0
    /\ lock = 0
    /\ pc = [p \in Procs |-> "idle"]
    /\ now = 1
    /\ call = [p \in Procs |-> NoCall]
    /\ start = NoStart
    /\ faults = 0
    /\ ledger = 0

\* the same start over the directories of RichDirs
ScanInit ==
    /\ \E pre \in RichDirs, live \in LiveSizes \cup {-1} :
          fs = [p \in pre \cup (IF live >= 0 THEN {fileName} ELSE {}) |->
                  IF p = fileName THEN File(live) ELSE Entry(p)]
    /\ ctor = "none"
    /\ closed = FALSE
    /\ file = "nil"
    /\ maxSize = 0
    /\ maxCount = 0
    /\ bytesWritten = 0
    /\ lock = 0
    /\ pc = [p \in Procs |-> "idle"]
    /\ now = 1
    /\ call = [p \in Procs |-> NoCall]
    /\ start = NoStart
    /\ faults = 0
    /\ ledger = 0

(* --------------------------- newRollingWriter ------------------------- *)
\* the call of the constructor that the file system fails
CtorFaults == {"none", "stat", "open", "close", "rename", "reopen", "remove"}

\* the threshold test written with > in place of >=
ShouldRotateStrict(bw, ms) == bw > ms

\* if r.bytesWritten >= r.maxSize
ShouldRotate(bw, ms) == bw >= ms

\* What the constructor hands back: ok = FALSE is a panic (no writer is
\* returned), failed names the step whose error was met.
Built(ok, why, g, h, bw, r, s, rm) ==
    [ok |-> ok, failed |-> why, fs |-> g, file |-> h, bytesWritten |-> bw,
     rotations |-> r, scans |-> s, removed |-> rm]

\* the last step with the error of deleteOld dropped
FinishIgnoringError(g, h, bw, r, mc, failAt) ==
    LET d == DeleteOld(g, mc, failAt) IN
    Built(TRUE, IF d.err # "none" THEN "scan" ELSE "none", d.fs, h, bw, r, 1, d.removed)

\* the last step without the call of deleteOld
FinishWithoutScan(g, h, bw, r, mc, failAt) ==
    Built(TRUE, "none", g, h, bw, r, 0, <<>>)

\* panicOnError(writer.deleteOld()); return writer
Finish(g, h, bw, r, mc, failAt) ==
    LET d == DeleteOld(g, mc, failAt) IN
    IF d.err # "none" THEN Built(FALSE, "scan", d.fs, "nil", 0, r, 1, d.removed)
    ELSE Built(TRUE, "none", d.fs, h, bw, r, 1, d.removed)

\* The whole constructor, as a function of the directory it finds, the
\* clock, its arguments and the call the file system fails.
NewRollingWriter(f, t, ms, mc, fault) ==
    LET size == IF Exists(f, fileName) THEN f[fileName].size ELSE 0
        rfault == CASE fault = "close" -> "close"
                    [] fault = "rename" -> "rename"
                    [] fault = "reopen" -> "open"
                    [] OTHER -> "none"
        failAt == CASE fault = "remove" -> 1
                    [] fault = "remove2" -> 2
                    [] OTHER -> 0
    IN
    IF fault = "stat" THEN Built(FALSE, "stat", f, "nil", 0, 0, 0, <<>>)
    ELSE IF fault = "open" THEN Built(FALSE, "open", f, "nil", 0, 0, 0, <<>>)
    ELSE IF ~Exists(f, fileName) THEN Finish(Create(f, fileName), "open", 0, 0, mc, failAt)
    ELSE IF ShouldRotate(size, ms * megabyte) THEN
        LET r == Rotate("open", size, f, t, rfault) IN
        IF r.err # "none" THEN Built(FALSE, "rotate", r.fs, "nil", 0, 1, 0, <<>>)
        ELSE Finish(r.fs, r.file, r.bytesWritten, 1, mc, failAt)
    ELSE Finish(f, "open", size, 0, mc, failAt)

New(ms, mc, t, fault) ==
    /\ ctor = "none"
    /\ LET w == NewRollingWriter(fs, t, ms, mc, fault) IN
         /\ fs' = w.fs
         /\ ctor' = IF w.ok THEN "returned" ELSE "panicked"
         /\ file' = w.file
         /\ bytesWritten' = w.bytesWritten
         /\ maxSize' = ms * megabyte
         /\ maxCount' = mc
         /\ now' = IF w.rotations > 0 THEN t ELSE now
         /\ start' = [live |-> IF Exists(fs, fileName) THEN fs[fileName].size ELSE -1,
                      n0 |-> Len(LogFiles(fs)), failed |-> w.failed,
                      rotations |-> w.rotations, scans |-> w.scans,
                      removed |-> w.removed, fresh |-> TRUE]
         /\ ledger' = DiskBytes(w.fs)
    /\ UNCHANGED <<closed, lock, pc, call, faults>>

(* -------------------------------- write ------------------------------- *)
\* a mutex that never makes a caller wait
LockAlwaysFree == TRUE

\* r.lock.Lock() returns only when no caller holds the mutex
LockFree == lock = 0

\* the closed check left out
IsClosedNever == FALSE

\* if r.closed
IsClosed == closed

\* file.WriteString(line) on handle h: the count and error it returns.
\* A nil or closed handle writes nothing; short = TRUE is a write the file
\* system cuts short after `part` bytes.
WriteString(h, len, short, part) ==
    IF h # "open" THEN [count |-> 0, err |-> "handle"]
    ELSE IF short THEN [count |-> part, err |-> "short"]
    ELSE [count |-> len, err |-> "none"]

\* the byte count added also when WriteString returned an error
CountedAlways(bw, w) == bw + w.count

\* lines 146-152: r.bytesWritten after the append; w is what WriteString
\* returned, and a write that returned an error adds nothing
Counted(bw, w) == IF w.err # "none" THEN bw ELSE bw + w.count

\* write: r.lock.Lock(); defer r.lock.Unlock()
WriteLock(p) ==
    /\ ctor = "returned"
    /\ pc[p] = "idle"
    /\ LockFree
    /\ lock' = p
    /\ pc' = [pc EXCEPT ![p] = "w_body"]
    /\ call' = [call EXCEPT ![p] = [NoCall EXCEPT !.op = "write", !.wasClosed = closed]]
    /\ start' = [start EXCEPT !.fresh = FALSE]
    /\ UNCHANGED <<fs, ctor, closed, file, maxSize, maxCount, bytesWritten, now,
                   faults, ledger>>

\* write, lines 141-153: the closed check, the append, the byte count and
\* the threshold test
WriteAppend(p, len, short, part) ==
    /\ pc[p] = "w_body"
    /\ short => faults < MaxFaults /\ ~closed /\ file = "open"
    /\ faults' = IF short THEN faults + 1 ELSE faults
    /\ IF IsClosed
         THEN /\ pc' = [pc EXCEPT ![p] = "unlock"]
              /\ UNCHANGED <<fs, bytesWritten, call, ledger>>
         ELSE LET w == WriteString(file, len, short, part)
                  bw == Counted(bytesWritten, w)
              IN
              /\ fs' = IF w.count > 0 THEN AppendBytes(fs, fileName, w.count) ELSE fs
              /\ ledger' = ledger + w.count
              /\ IF w.err # "none"
                   THEN /\ bytesWritten' = bw
                        /\ pc' = [pc EXCEPT ![p] = "unlock"]
                        /\ call' = [call EXCEPT ![p].count = w.count,
                                                ![p].werr = w.err,
                                                ![p].fault = short]
                   ELSE /\ bytesWritten' = bw
                        /\ pc' = [pc EXCEPT ![p] =
                                    IF ShouldRotate(bw, maxSize)
                                    THEN "w_rotate" ELSE "unlock"]
                        /\ call' = [call EXCEPT ![p].count = w.count, ![p].bw = bw]
    /\ UNCHANGED <<ctor, closed, file, maxSize, maxCount, lock, now, start>>

\* bytes of the archive a rename onto an existing name replaces
Replaced(f, t, err) ==
    IF err \in {"none", "open"} /\ Exists(f, ArchivePath(Format(t)))
    THEN f[ArchivePath(Format(t))].size ELSE 0

\* a write that returns when its rotate failed
AfterRotateStopsOnError(err) == IF err # "none" THEN "unlock" ELSE "w_delete"

\* lines 156-160: the error of rotate is printed and write goes on to
\* deleteOld
AfterRotate(err) == "w_delete"

\* write, lines 155-158: err := r.rotate(), reported and swallowed
WriteRotate(p, t, fault) ==
    /\ pc[p] = "w_rotate"
    /\ fault # "none" => faults < MaxFaults
    /\ faults' = IF fault # "none" THEN faults + 1 ELSE faults
    /\ now' = t
    /\ LET r == Rotate(file, bytesWritten, fs, t, fault) IN
         /\ file' = r.file
         /\ bytesWritten' = r.bytesWritten
         /\ fs' = r.fs
         /\ ledger' = ledger - Replaced(fs, t, r.err)
         /\ call' = [call EXCEPT ![p].rotations = @ + 1, ![p].rotErr = r.err,
                                 ![p].nRot0 = Len(LogFiles(fs)),
                                 ![p].fault = @ \/ fault # "none"]
         /\ pc' = [pc EXCEPT ![p] = AfterRotate(r.err)]
    /\ UNCHANGED <<ctor, closed, maxSize, maxCount, lock, start>>

\* write, lines 160-163: err = r.deleteOld(), reported and swallowed
WriteDeleteOld(p, failAt) ==
    /\ pc[p] = "w_delete"
    /\ failAt # 0 => faults < MaxFaults /\ Len(LogFiles(fs)) >= maxCount + failAt
    /\ faults' = IF failAt # 0 THEN faults + 1 ELSE faults
    /\ LET d == DeleteOld(fs, maxCount, failAt) IN
         /\ fs' = d.fs
         /\ ledger' = ledger - SumSizes(fs, {d.removed[i] : i \in 1..Len(d.removed)})
         /\ call' = [call EXCEPT ![p].scans = @ + 1, ![p].delErr = d.err,
                                 ![p].nDel0 = Len(LogFiles(fs)),
                                 ![p].removed = d.removed,
                                 ![p].fault = @ \/ failAt # 0]
    /\ pc' = [pc EXCEPT ![p] = "unlock"]
    /\ UNCHANGED <<ctor, closed, file, maxSize, maxCount, bytesWritten, lock, now,
                   start>>

(* -------------------------------- close ------------------------------- *)
\* close: r.lock.Lock(); defer r.lock.Unlock()
CloseLock(p) ==
    /\ ctor = "returned"
    /\ pc[p] = "idle"
    /\ LockFree
    /\ lock' = p
    /\ pc' = [pc EXCEPT ![p] = "c_body"]
    /\ call' = [call EXCEPT ![p] = [NoCall EXCEPT !.op = "close", !.wasClosed = closed]]
    /\ start' = [start EXCEPT !.fresh = FALSE]
    /\ UNCHANGED <<fs, ctor, closed, file, maxSize, maxCount, bytesWritten, now,
                   faults, ledger>>

\* file.Close(): the descriptor is released whether or not an error is
\* returned; a nil handle stays nil
CloseHandle(h) == IF h = "nil" THEN "nil" ELSE "closed"

\* close, lines 172-173
CloseBody(p) ==
    /\ pc[p] = "c_body"
    /\ file' = CloseHandle(file)
    /\ closed' = TRUE
    /\ pc' = [pc EXCEPT ![p] = "unlock"]
    /\ UNCHANGED <<fs, ctor, maxSize, maxCount, bytesWritten, lock, now, call,
                   start, faults, ledger>>

\* the deferred r.lock.Unlock(): the call returns
Unlock(p) ==
    /\ pc[p] = "unlock"
    /\ lock' = 0
    /\ pc' = [pc EXCEPT ![p] = "idle"]
    /\ call' = [call EXCEPT ![p] = NoCall]
    /\ UNCHANGED <<fs, ctor, closed, file, maxSize, maxCount, bytesWritten, now,
                   start, faults, ledger>>

\* time.Now() never runs backwards: the seconds a call can read
Clock == now..MaxTime

Next ==
    \/ \E ms \in SizeArgs, mc \in 0..MaxCountArg, t \in Clock, fault \in CtorFaults :
          New(ms, mc, t, fault)
    \/ \E p \in Procs : WriteLock(p)
    \/ \E p \in Procs, len \in LineLens, short \in BOOLEAN, part \in {0, Unit} :
          /\ part < len
          /\ (~short => part = 0)
          /\ WriteAppend(p, len, short, part)
    \/ \E p \in Procs, t \in Clock, fault \in RotateFaults : WriteRotate(p, t, fault)
    \/ \E p \in Procs, failAt \in 0..1 : WriteDeleteOld(p, failAt)
    \/ \E p \in Procs : CloseLock(p)
    \/ \E p \in Procs : CloseBody(p)
    \/ \E p \in Procs : Unlock(p)

Spec == Init /\ [][Next]_vars

\* One caller writing lines of one megabyte to a writer built over a
\* directory of RichDirs, in which the only calls the file system fails
\* are those of os.Remove.
ScanNext ==
    \/ \E ms \in SizeArgs, mc \in 0..MaxCountArg, t \in Clock,
          fault \in {"none", "remove", "remove2"} : New(ms, mc, t, fault)
    \/ WriteLock(1)
    \/ WriteAppend(1, 2 * Unit, FALSE, 0)
    \/ \E t \in Clock : WriteRotate(1, t, "none")
    \/ \E failAt \in 0..2 : WriteDeleteOld(1, failAt)
    \/ Unlock(1)

ScanSpec == ScanInit /\ [][ScanNext]_vars

(* ------------------------- derived state functions -------------------- *)
\* no caller is inside write or close
Quiescent == ctor = "returned" /\ \A p \in Procs : pc[p] = "idle"

\* the body of caller p's write call is done: the call is returning
WriteReturns(p) == pc[p] = "unlock" /\ call[p].op = "write"

\* the constructor has returned and no call has been made yet
Fresh == ctor = "returned" /\ start.fresh

\* on-disk size of the live file (0 when there is none)
LiveSize == IF Exists(fs, fileName) THEN fs[fileName].size ELSE 0

\* the archive set as deleteOld sees it
NumLogs == Len(LogFiles(fs))

\* the text after the last '.' of path p is an RFC 3339 timestamp
EndsInStamp(p) == Len(p) >= 2 /\ p[Len(p) - 1] = "." /\ ParseOk(p[Len(p)])

\* the set of the elements of a sequence
Range(q) == {q[i] : i \in 1..Len(q)}

(* -------------------------------- claims ------------------------------ *)

\* C1: whenever no writer operation is in progress, bytesWritten equals
\* the on-disk size of the live file.  (Stated as claimed; the code breaks
\* it when WriteString returns an error after writing part of the line.)
C1_BytesWrittenIsLiveSize == Quiescent => bytesWritten = LiveSize

\* C2, as claimed: the write whose append brings bytesWritten to maxSize
\* or above calls rotate exactly once, any other write never, and
\* bytesWritten is 0 when the crossing write returns.
C2_CrossingWriteResets ==
    \A p \in Procs : WriteReturns(p) =>
        IF call[p].bw >= maxSize
        THEN call[p].rotations = 1 /\ bytesWritten = 0
        ELSE call[p].rotations = 0

\* C2, amended: the crossing write calls rotate exactly once, any other
\* write never; bytesWritten is 0 on return when that rotate got past its
\* rename, and keeps the value reached when its close or rename failed.
C2_CrossingWriteRotatesOnce ==
    \A p \in Procs : WriteReturns(p) =>
        IF call[p].bw >= maxSize
        THEN /\ call[p].rotations = 1
             /\ call[p].rotErr \in {"none", "open"} => bytesWritten = 0
             /\ call[p].rotErr \in {"close", "rename"} => bytesWritten = call[p].bw
        ELSE call[p].rotations = 0

\* a write that exceeded a non-zero maxSize, rotated once and returns with 0
C2_Witness ==
    \E p \in Procs :
        /\ WriteReturns(p)
        /\ maxSize > 0
        /\ call[p].bw > maxSize
        /\ call[p].rotations = 1
        /\ call[p].rotErr = "none"
        /\ bytesWritten = 0

C4_ClosedIsTerminal ==
    [][closed =>
         /\ closed'
         /\ UNCHANGED <<fs, file, bytesWritten>>
         /\ \A p \in Procs : pc[p] = "w_body" /\ pc'[p] # "w_body" =>
                /\ pc'[p] = "unlock"
                /\ call'[p].werr = "none"
                /\ call'[p].count = 0]_vars

\* a write call made after close is returning
C4_Witness ==
    \E p \in Procs :
        /\ closed
        /\ WriteReturns(p)
        /\ call[p].wasClosed
        /\ \E q \in Procs : q # p

C6_WriterStaysUsable ==
    \A p \in Procs : WriteReturns(p) /\ ~call[p].wasClosed /\ ~call[p].fault =>
        call[p].werr = "none" /\ call[p].count > 0

\* C7, as claimed: a successful rotation raises the number of archives
\* by exactly one before retention runs.  (The code breaks it: the rename
\* replaces an archive stamped with the same second.)
C7_RotationAddsOneArchive ==
    \A p \in Procs : pc[p] = "w_delete" /\ call[p].rotErr = "none" =>
        NumLogs = call[p].nRot0 + 1

\* C8, as claimed: a writer built over a live file at or above maxSize has
\* rotated exactly once, its live file is empty, bytesWritten is 0 and the
\* old content is in the archive of the rotation; built over a smaller
\* file it has not rotated and bytesWritten is the file's size.
C8_StartupRotationKeepsArchive ==
    Fresh /\ start.live >= 0 =>
        IF start.live >= maxSize
        THEN /\ start.rotations = 1
             /\ Exists(fs, fileName) /\ fs[fileName].size = 0
             /\ bytesWritten = 0
             /\ Exists(fs, ArchivePath(Format(now)))
             /\ fs[ArchivePath(Format(now))].size = start.live
        ELSE /\ start.rotations = 0
             /\ bytesWritten = start.live
             /\ Exists(fs, fileName) /\ fs[fileName].size = start.live

\* C8, amended: the same, but the archive of the start-up rotation holds
\* the old content only if the retention scan of the same construction
\* did not delete it (with maxCount = 0 it always does).
C8_StartupRotation ==
    Fresh /\ start.live >= 0 =>
        IF start.live >= maxSize
        THEN /\ start.rotations = 1
             /\ Exists(fs, fileName) /\ fs[fileName].size = 0
             /\ bytesWritten = 0
             /\ \/ /\ Exists(fs, ArchivePath(Format(now)))
                   /\ fs[ArchivePath(Format(now))].size = start.live
                \/ /\ ~Exists(fs, ArchivePath(Format(now)))
                   /\ \E i \in 1..Len(start.removed) :
                         start.removed[i] = ArchivePath(Format(now))
        ELSE /\ start.rotations = 0
             /\ bytesWritten = start.live
             /\ Exists(fs, fileName) /\ fs[fileName].size = start.live

\* a writer built over a full live file, whose archive survived the scan
C8_Witness ==
    /\ Fresh
    /\ maxSize > 0
    /\ start.live >= maxSize
    /\ start.rotations = 1
    /\ Exists(fs, ArchivePath(Format(now)))
    /\ fs[ArchivePath(Format(now))].size = start.live
    /\ bytesWritten = 0

\* C9: construction never returns a half-built writer: a writer is
\* returned exactly when no step of the constructor failed, a returned
\* writer holds an open handle on a live file that exists, and after a
\* panic no caller ever gets into write or close.
C9_NoHalfInitializedWriter ==
    /\ ctor = "returned" => start.failed = "none"
    /\ ctor # "none" /\ start.failed = "none" => ctor = "returned"
    /\ Fresh => file = "open" /\ Exists(fs, fileName) /\ ~closed
    /\ ctor = "panicked" =>
          /\ start.failed # "none"
          /\ \A p \in Procs : pc[p] = "idle" /\ ~ENABLED WriteLock(p)
                                              /\ ~ENABLED CloseLock(p)

\* a construction that rotated and then panicked in its retention scan
C9_Witness ==
    /\ ctor = "panicked"
    /\ start.failed = "scan"
    /\ start.rotations = 1

\* C10: a writer that construction returns has run the retention scan,
\* on either branch, so at most maxCount archives remain whatever was in
\* the directory; when no live file was found, an empty one exists and
\* bytesWritten is 0.
C10_StartupRetention ==
    Fresh =>
        /\ start.scans = 1
        /\ NumLogs <= maxCount
        /\ NumLogs = Min(start.n0 + start.rotations, maxCount)
        /\ start.live = -1 =>
              /\ Exists(fs, fileName) /\ fs[fileName].size = 0
              /\ bytesWritten = 0
              /\ start.rotations = 0

\* a writer built without a live file, whose scan deleted two archives
C10_Witness ==
    /\ Fresh
    /\ start.live = -1
    /\ start.n0 > maxCount + 1
    /\ Len(start.removed) = 2
    /\ NumLogs = maxCount

\* C11: the retention scanner never deletes or modifies the live file nor
\* any entry that begins with the live path and whose text after the last
\* '.' is no RFC 3339 timestamp, whatever the directory holds and whatever
\* maxCount is: a scan about to run leaves each such entry as it is, also
\* when an os.Remove fails, and the scans that have run removed none.
C11_ScannerSparesUnstamped ==
    /\ \A p \in Procs : pc[p] = "w_delete" =>
          \A failAt \in 0..2 :
             LET d == DeleteOld(fs, maxCount, failAt) IN
             \A q \in DOMAIN fs : HasPrefix(q, fileName) /\ ~EndsInStamp(q) =>
                 q \in DOMAIN d.fs /\ d.fs[q] = fs[q]
    /\ \A p \in Procs : WriteReturns(p) /\ call[p].scans = 1 =>
          /\ \A q \in Range(call[p].removed) : q # fileName /\ EndsInStamp(q)
          /\ Exists(fs, BakPath) /\ fs[BakPath] = File(Unit)
          /\ call[p].rotErr = "none" => Exists(fs, fileName) /\ fs[fileName] = File(0)
    /\ ctor = "returned" =>
          /\ \A q \in Range(start.removed) : q # fileName /\ EndsInStamp(q)
          /\ Exists(fs, BakPath) /\ fs[BakPath] = File(Unit)
    /\ Fresh => Exists(fs, fileName)
                 /\ fs[fileName] = File(IF start.rotations = 1 \/ start.live = -1
                                        THEN 0 ELSE start.live)

\* a writer built with maxCount = 0 over a full live file: the scan removed
\* the new archive, appd/f.<t0> and more, and left the live file, app.bak
\* and the directory appd
C11_Witness ==
    /\ Fresh
    /\ maxCount = 0
    /\ start.rotations = 1
    /\ Len(start.removed) >= 3
    /\ SubFile \in Range(start.removed)
    /\ ArchivePath(Format(now)) \in Range(start.removed)
    /\ Exists(fs, fileName) /\ Exists(fs, BakPath) /\ Exists(fs, SubDir)

\* the last n elements of a sequence
LastN(q, n) == SubSeq(q, Len(q) - n + 1, Len(q))

\* C12, as claimed: a deleteOld that finds more than maxCount archives
\* deletes them in the order the walk listed them, always the front of the
\* list, and the archives that survive are exactly the last maxCount of
\* that order.
C12_SurvivorsAreLastOfDiscovery ==
    \A p \in Procs : pc[p] = "w_delete" /\ NumLogs > maxCount =>
        \A failAt \in 0..2 :
           LET d == DeleteOld(fs, maxCount, failAt) IN
           /\ d.removed = SubSeq(LogFiles(fs), 1, Len(d.removed))
           /\ LogFiles(d.fs) = LastN(LogFiles(fs), maxCount)

\* C12, amended: the files deleted are always a front part of the walk's
\* list, in its order; when no os.Remove fails the survivors are exactly
\* the last maxCount of the list, and when one fails they are the rest of
\* the list from the file that could not be deleted.
C12_DeletesFrontOfDiscovery ==
    /\ \A p \in Procs : pc[p] = "w_delete" /\ NumLogs > maxCount =>
          \A failAt \in 0..2 :
             LET d == DeleteOld(fs, maxCount, failAt) IN
             /\ d.removed = SubSeq(LogFiles(fs), 1, Len(d.removed))
             /\ LogFiles(d.fs) = LastN(LogFiles(fs), NumLogs - Len(d.removed))
             /\ d.err = "none" => LogFiles(d.fs) = LastN(LogFiles(fs), maxCount)
    /\ \A p \in Procs : WriteReturns(p) /\ call[p].scans = 1 =>
          /\ \A i, j \in 1..Len(call[p].removed) :
                i < j => PathLess(call[p].removed[i], call[p].removed[j])
          /\ \A q \in Range(call[p].removed), r \in Range(LogFiles(fs)) : PathLess(q, r)
          /\ Len(call[p].removed) + NumLogs = call[p].nDel0

\* a write whose scan deleted the archive just made, app.<now>, and kept
\* appx.<t0>, which is listed after it and carries an earlier timestamp
C12_Witness ==
    \E p \in Procs :
        /\ WriteReturns(p)
        /\ call[p].rotErr = "none"
        /\ call[p].delErr = "none"
        /\ maxCount = 1
        /\ call[p].removed = <<ArchivePath(Format(now))>>
        /\ LogFiles(fs) = <<OtherPath>>
        /\ StampOf(OtherPath) < StampOf(ArchivePath(Format(now)))

\* C13, as claimed: with maxCount = 0 a write whose rotation succeeded
\* deletes, in the same call, the archive that rotation made, and no
\* archive exists when the write returns.
C13_ZeroRetentionLeavesNoArchive ==
    \A p \in Procs :
        WriteReturns(p) /\ maxCount = 0 /\ call[p].rotations = 1
                        /\ call[p].rotErr = "none" =>
            /\ call[p].scans = 1
            /\ ArchivePath(Format(now)) \in Range(call[p].removed)
            /\ ~Exists(fs, ArchivePath(Format(now)))
            /\ NumLogs = 0

\* C13, amended: the same when no os.Remove of that call's scan fails; the
\* scan runs in every such write, and when an os.Remove fails it stops
\* and an archive is left when the write returns.
C13_ZeroRetention ==
    \A p \in Procs :
        WriteReturns(p) /\ maxCount = 0 /\ call[p].rotations = 1
                        /\ call[p].rotErr = "none" =>
            /\ call[p].scans = 1
            /\ call[p].delErr = "none" =>
                  /\ ArchivePath(Format(now)) \in Range(call[p].removed)
                  /\ ~Exists(fs, ArchivePath(Format(now)))
                  /\ NumLogs = 0
            /\ call[p].delErr # "none" => NumLogs >= 1

\* a write with maxCount = 0 and maxSize > 0 that rotated and whose scan
\* deleted exactly the archive of that rotation
C13_Witness ==
    \E p \in Procs :
        /\ WriteReturns(p)
        /\ maxCount = 0
        /\ maxSize > 0
        /\ call[p].rotErr = "none"
        /\ call[p].delErr = "none"
        /\ call[p].removed = <<ArchivePath(Format(now))>>
        /\ Exists(fs, fileName) /\ fs[fileName].size = 0

\* C14: rotate closes the handle, renames the live file to the archive,
\* resets bytesWritten and opens a new live file, in that order, and the
\* first step that fails ends it with that error: after a failed close
\* nothing is renamed and bytesWritten is kept; after a failed rename
\* bytesWritten is kept and no file is opened; after a failed reopen the
\* archive exists and bytesWritten is 0.  Stated of every rotate a write is
\* about to call and of every rotate a write has called.
C14_RotateStepsAndFailures ==
    /\ \A p \in Procs : pc[p] = "w_rotate" =>
          \A t \in Clock, fault \in RotateFaults :
             LET r == Rotate(file, bytesWritten, fs, t, fault)
                 a == ArchivePath(Format(t))
             IN
             /\ r.err = fault
             /\ fault \in {"close", "rename"} =>
                   r.fs = fs /\ r.bytesWritten = bytesWritten /\ r.file = "closed"
             /\ fault \in {"open", "none"} =>
                   /\ Exists(r.fs, a) /\ r.fs[a] = fs[fileName]
                   /\ r.bytesWritten = 0
             /\ fault = "open" => ~Exists(r.fs, fileName) /\ r.file = "nil"
             /\ fault = "none" =>
                   Exists(r.fs, fileName) /\ r.fs[fileName] = File(0) /\ r.file = "open"
    /\ \A p \in Procs : pc[p] = "w_delete" =>
          /\ call[p].rotations = 1
          /\ call[p].rotErr \in {"close", "rename"} =>
                /\ bytesWritten = call[p].bw
                /\ NumLogs = call[p].nRot0
                /\ Exists(fs, fileName) /\ fs[fileName].size > 0
                /\ file = "closed"
          /\ call[p].rotErr = "open" =>
                /\ bytesWritten = 0
                /\ Exists(fs, ArchivePath(Format(now)))
                /\ ~Exists(fs, fileName)
                /\ file = "nil"
          /\ call[p].rotErr = "none" =>
                /\ bytesWritten = 0
                /\ Exists(fs, ArchivePath(Format(now)))
                /\ Exists(fs, fileName) /\ fs[fileName] = File(0)
                /\ file = "open"
    /\ ctor = "panicked" /\ start.failed = "rotate" => start.rotations = 1 /\ start.scans = 0

\* a write whose rotate failed at the rename: the live file is in place,
\* bytesWritten keeps the value that crossed the threshold
C14_Witness ==
    \E p \in Procs :
        /\ pc[p] = "w_delete"
        /\ call[p].rotErr = "rename"
        /\ maxSize > 0
        /\ bytesWritten = call[p].bw
        /\ bytesWritten >= maxSize
        /\ Exists(fs, fileName)
        /\ file = "closed"

\* C15: when an os.Remove of deleteOld fails, the loop stops at that file
\* and the error is returned: the files deleted before it stay deleted,
\* nothing else is deleted or changed, and more than maxCount archives
\* remain.  Stated of every scan a write is about to run, with its first
\* or second os.Remove failing, and of the scans that have failed.
C15_RemoveFailureStopsLoop ==
    /\ \A p \in Procs : pc[p] = "w_delete" =>
          \A failAt \in 1..2 : NumLogs >= maxCount + failAt =>
             LET d == DeleteOld(fs, maxCount, failAt) IN
             /\ d.err = "remove"
             /\ d.removed = SubSeq(LogFiles(fs), 1, failAt - 1)
             /\ DOMAIN d.fs = DOMAIN fs \ Range(d.removed)
             /\ \A q \in DOMAIN d.fs : d.fs[q] = fs[q]
             /\ Len(LogFiles(d.fs)) > maxCount
    /\ \A p \in Procs : WriteReturns(p) /\ call[p].delErr = "remove" =>
          /\ call[p].scans = 1
          /\ \A q \in Range(call[p].removed) : ~Exists(fs, q)
          /\ Len(call[p].removed) + NumLogs = call[p].nDel0
          /\ NumLogs > maxCount
    /\ ctor # "none" /\ start.failed = "scan" =>
          /\ ctor = "panicked"
          /\ \A q \in Range(start.removed) : ~Exists(fs, q)
          /\ Len(start.removed) + NumLogs = start.n0 + start.rotations
          /\ NumLogs > maxCount

\* a construction whose scan deleted one archive and failed at the second:
\* the first stays deleted and more than maxCount archives are left
C15_Witness ==
    /\ ctor = "panicked"
    /\ start.failed = "scan"
    /\ Len(start.removed) = 1
    /\ ~Exists(fs, start.removed[1])
    /\ NumLogs > maxCount
    /\ NumLogs = start.n0 + start.rotations - 1

\* C16: a write whose append fails returns with no further effect:
\* bytesWritten, closed and the handle are unchanged, no entry of the
\* directory is renamed or deleted, rotate and deleteOld are not called;
\* and bytesWritten grows only in a successful append, by the count that
\* WriteString returned.
C16_FailedAppendHasNoEffect ==
    /\ [](\A p \in Procs : WriteReturns(p) /\ call[p].werr # "none" =>
              /\ call[p].rotations = 0
              /\ call[p].scans = 0
              /\ call[p].removed = <<>>
              /\ closed = call[p].wasClosed)
    /\ [][\A p \in Procs : pc[p] = "w_body" /\ pc'[p] # "w_body" =>
              IF call'[p].werr # "none"
              THEN /\ pc'[p] = "unlock"
                   /\ UNCHANGED <<bytesWritten, closed, file>>
                   /\ DOMAIN fs' = DOMAIN fs
              ELSE closed \/ bytesWritten' = bytesWritten + call'[p].count]_vars
    /\ [][ctor = "returned" /\ bytesWritten' > bytesWritten =>
              \E p \in Procs :
                 /\ pc[p] = "w_body"
                 /\ call'[p].werr = "none"
                 /\ bytesWritten' = bytesWritten + call'[p].count
                 /\ fs'[fileName].size = fs[fileName].size + call'[p].count]_vars

\* a write whose WriteString wrote part of the line and returned an error:
\* it returns with bytesWritten behind the bytes on disk and no rotation
C16_Witness ==
    \E p \in Procs :
        /\ WriteReturns(p)
        /\ call[p].werr = "short"
        /\ call[p].count > 0
        /\ call[p].rotations = 0
        /\ call[p].scans = 0
        /\ LiveSize >= maxSize
        /\ bytesWritten < LiveSize

\* C17: on the write path deleteOld runs only in a write whose append
\* brought bytesWritten to maxSize or above, there exactly once and right
\* after the one call of rotate, whether that rotate succeeded or failed;
\* a write that does not cross the threshold deletes no file, and every
\* entry that leaves the directory after construction leaves it in the
\* scan of a crossing write.
C17_ScanOnlyAfterRotation ==
    /\ [](\A p \in Procs :
            /\ WriteReturns(p) =>
                  IF call[p].bw >= maxSize
                  THEN call[p].rotations = 1 /\ call[p].scans = 1
                  ELSE call[p].rotations = 0 /\ call[p].scans = 0
                       /\ call[p].removed = <<>>
            /\ pc[p] = "w_rotate" => call[p].rotations = 0 /\ call[p].scans = 0
            /\ pc[p] = "w_delete" =>
                  call[p].rotations = 1 /\ call[p].scans = 0 /\ call[p].bw >= maxSize)
    /\ [][\A p \in Procs :
              /\ pc[p] = "w_rotate" => pc'[p] \in {"w_rotate", "w_delete"}
              /\ pc[p] = "w_body" /\ pc'[p] = "unlock" => DOMAIN fs' = DOMAIN fs]_vars
    /\ [][ctor = "returned" /\ (DOMAIN fs \ DOMAIN fs') \ {fileName} # {} =>
              \E p \in Procs : pc[p] = "w_delete" /\ pc'[p] = "unlock"
                                /\ call[p].bw >= maxSize]_vars

\* a write that crossed the threshold, whose rotate failed at the rename,
\* and whose scan ran nevertheless, once
C17_Witness ==
    \E p \in Procs :
        /\ WriteReturns(p)
        /\ maxSize > 0
        /\ call[p].bw >= maxSize
        /\ call[p].rotations = 1
        /\ call[p].rotErr = "rename"
        /\ call[p].scans = 1

\* C18, as claimed: whenever the writer exists, is not closed and no call
\* is in progress, it holds an open handle on the file that is at the
\* live path, also after a rotation that failed during a write.  (The
\* code breaks it: a failed rotate leaves a closed or nil handle.)
C18_OpenHandleOnLiveFile ==
    Quiescent /\ ~closed => file = "open" /\ Exists(fs, fileName)

\* path q is exactly the live path, a '.' and an RFC 3339 timestamp
OwnArchiveName(q) == \E t \in TimeRange : q = ArchivePath(Format(t))

\* C19, as claimed: every entry the retention scanner counts or deletes is
\* a file named exactly <live path>.<RFC 3339 timestamp>; entries such as
\* appx.<ts> or app.bak.<ts>, entries of subdirectories and directories
\* are neither counted nor deleted.  (The code breaks it: the walk takes
\* every path that begins with the live path and ends in a timestamp.)
C19_ScannerTouchesOnlyOwnArchives ==
    /\ \A p \in Procs : pc[p] = "w_delete" =>
          \A q \in Range(LogFiles(fs)) : OwnArchiveName(q) /\ ~fs[q].isDir
    /\ \A p \in Procs : WriteReturns(p) =>
          \A q \in Range(call[p].removed) : OwnArchiveName(q)
    /\ ctor # "none" => \A q \in Range(start.removed) : OwnArchiveName(q)

\* the call of p is returning and nothing in it failed
CleanWrite(p) ==
    /\ WriteReturns(p)
    /\ ~closed
    /\ call[p].werr = "none"
    /\ call[p].rotErr = "none"
    /\ call[p].delErr = "none"
    /\ ~call[p].fault

\* C20, as claimed: for every maxSize >= 0, when construction or a write
\* has returned without a file system failure and the writer is not
\* closed, bytesWritten is strictly less than maxSize.
C20_BelowThreshold ==
    /\ Fresh => bytesWritten < maxSize
    /\ \A p \in Procs : CleanWrite(p) => bytesWritten < maxSize

\* C20, amended: the same for maxSize > 0; with maxSize = 0 every such
\* call has rotated and bytesWritten is 0, which equals maxSize.  While
\* the file system has failed no call, the live file's size is
\* bytesWritten, below the threshold as well.
C20_BelowPositiveThreshold ==
    /\ Fresh \/ (\E p \in Procs : CleanWrite(p)) =>
          /\ maxSize > 0 => bytesWritten < maxSize
          /\ maxSize = 0 => bytesWritten = 0
          /\ faults = 0 => LiveSize = bytesWritten
    /\ \A p \in Procs : CleanWrite(p) /\ maxSize = 0 => call[p].rotations = 1

\* a write that brought bytesWritten exactly to maxSize > 0, rotated, and
\* returns with bytesWritten = 0
C20_Witness ==
    \E p \in Procs :
        /\ CleanWrite(p)
        /\ maxSize > 0
        /\ call[p].bw = maxSize
        /\ call[p].rotations = 1
        /\ bytesWritten = 0
        /\ LiveSize = 0

====
